---- MODULE Spec2Model ----
(***************************************************************************)
(* Order execution engine: the order store, the BullMQ job of each order,  *)
(* the worker's pipeline handler, the websocket connection registry and    *)
(* the two HTTP/websocket handlers, modelled from the server source.       *)
(*                                                                         *)
(* Node runs each handler to its next await without interleaving, so one   *)
(* action is one synchronous segment of a handler: the code between two    *)
(* awaits, including the catch block when a statement of it throws.        *)
(***************************************************************************)
EXTENDS Integers, Sequences, FiniteSets, TLC

\* ---------------------------------------------------------------- bounds
MaxOrders == 2          \* accepted submissions explored
MaxTransports == 2      \* websocket connections explored
MaxInbox == 2           \* messages recorded per websocket (the first ones)
MaxLoad == 3            \* orders plus websocket connections explored together
MaxFairLoad == 2        \* orders plus websocket connections in the runs with fairness or a clock
MaxClock == 2           \* readings the system clock advances through

\* ------------------------------------------------------ program constants
Attempts == 3           \* orderQueue.add opts.attempts
BackoffDelay == 1000    \* orderQueue.add opts.backoff.delay
Concurrency == 10       \* Worker opts.concurrency
BasePrice == 100        \* MockDexRouter basePrice
\* An amount is a decimal number with six fractional digits: whole + micro / 10^6
\* with micro in 0 .. 999999 (so -1 is whole -1, micro 0).
Amount(whole, micro) == [whole |-> whole, micro |-> micro]
AmountLeq(a, b) == a.whole < b.whole \/ (a.whole = b.whole /\ a.micro <= b.micro)
AmountMin == Amount(0, 1)         \* schema minimum: 0.000001
AmountMax == Amount(1000000, 0)   \* schema maximum: 1000000
Scale == 100000         \* fixed-point unit of the price factor: 1 = 100000
RandMax == 999          \* Math.random() in thousandths: 0 .. 0.999

\* ------------------------------------------------------------ value sets
\* A token enum that also lists BTC.
TokensWithBTC == {"SOL", "USDC", "USDT", "ETH", "BTC"}

Tokens == {"SOL", "USDC", "USDT", "ETH"}

NoTx == <<>>            \* txHash absent (undefined)
NoError == "none"       \* error absent (undefined)
NoPrice == 0            \* executedPrice absent
Pending == -1           \* a promise that has not settled yet
NoTransport == 0
NoFault == [message |-> "none", site |-> "none", isError |-> FALSE]

OrderIds == 1..MaxOrders
Transports == 1..MaxTransports

\* Math.random() draws explored (thousandths) and the request bodies explored.
RandomDraws == {0, RandMax}
Requests ==
  { [tokenIn |-> "SOL", tokenOut |-> "USDC", amount |-> Amount(1, 500000)] }

VARIABLES
  orderStore,    \* Map<string, Order>: function from the stored ids to orders
  connections,   \* Map<string, WebSocket>: function from bound ids to transports
  jobs,          \* the BullMQ job of each order: state, attemptsMade, payload, opts
  run,           \* the worker's handler invocation for each job (locals + position)
  sock,          \* each websocket: readyState and the :orderId it was opened for
  inbox,         \* the first MaxInbox messages each open websocket was sent
  reply,         \* the last HTTP reply of POST /api/orders/execute
  request,       \* the body of the last POST /api/orders/execute
  now            \* the system clock that new Date() reads

vars == <<orderStore, connections, jobs, run, sock, inbox, reply, request, now>>

\* ------------------------------------------------------------- helpers
MapSet(m, k, v) == [x \in (DOMAIN m) \cup {k} |-> IF x = k THEN v ELSE m[x]]
MapDelete(m, k) == [x \in (DOMAIN m) \ {k} |-> m[x]]

RECURSIVE Pow2(_)
Pow2(n) == IF n <= 0 THEN 1 ELSE 2 * Pow2(n - 1)

\* ----------------------------------------------------- MockDexRouter
\* A price that moves by up to 30% instead of 3%.
PriceOfWide(r) == BasePrice * (Scale + (60 * r - 30000))

\* basePrice * (1 + (Math.random() * 0.06 - 0.03)), r in thousandths,
\* result in units of 1/Scale.
PriceOf(r) == BasePrice * (Scale + (6 * r - 3000))

GetRaydiumQuote(r) == PriceOf(r)
GetMeteoraQuote(r) == PriceOf(r)

\* An execution that tags every transaction with raydium.
ExecuteSwapRaydiumTag(dex, uuid, r) ==
  [txHash |-> <<"raydium", uuid>>, executedPrice |-> PriceOf(r)]

\* executeSwap: txHash = `${dex}_${randomUUID()}`, a fresh price draw. The
\* uuid is a value no other call returns: the job and the attempt of the call.
ExecuteSwap(dex, uuid, r) ==
  [txHash |-> <<dex, uuid>>, executedPrice |-> PriceOf(r)]

\* A comparison that sends equal quotes to meteora.
BestDexStrict(raydiumPrice, meteoraPrice) ==
  IF raydiumPrice < meteoraPrice THEN "raydium" ELSE "meteora"

\* const bestDex = raydiumPrice <= meteoraPrice ? 'raydium' : 'meteora'
BestDex(raydiumPrice, meteoraPrice) ==
  IF raydiumPrice <= meteoraPrice THEN "raydium" ELSE "meteora"

\* ------------------------------------------------- request validation
\* A schema whose lower limit is exclusive (exclusiveMinimum).
ValidBodyExclusiveMin(b) ==
  /\ b.tokenIn \in Tokens
  /\ b.tokenOut \in Tokens
  /\ AmountLeq(AmountMin, b.amount) /\ b.amount # AmountMin
  /\ AmountLeq(b.amount, AmountMax)

\* JSON schema of the body: enum for both tokens, minimum / maximum (both
\* inclusive in JSON schema) for the amount.
ValidBody(b) ==
  /\ b.tokenIn \in Tokens
  /\ b.tokenOut \in Tokens
  /\ AmountLeq(AmountMin, b.amount)
  /\ AmountLeq(b.amount, AmountMax)

\* ------------------------------------------------------------ faults
\* Every fault explored is an Error object: its message and where it was thrown.
Fault(message, site) == [message |-> message, site |-> site, isError |-> TRUE]

\* error instanceof Error ? error.message : 'Unknown error'
ErrorMessage(f) == IF f.isError THEN f.message ELSE "Unknown error"

\* ------------------------------------------------ worker: the handler
\* The handler's context while one synchronous segment runs: the local
\* `order` object, the store, the inboxes, what this attempt has written and
\* pushed so far, and the fault thrown inside the try block (if any).
Ctx(order, writes, pushed) ==
  [order |-> order, store |-> orderStore, inb |-> inbox,
   writes |-> writes, pushed |-> pushed, thrown |-> NoFault]

\* The message as it is observed: with the status the store holds for its
\* order at the moment it is sent.
Seen(c, msg) == [msg EXCEPT !.storeStatus = c.store[msg.orderId].status]

Record(box, msg) == IF Len(box) < MaxInbox THEN Append(box, msg) ELSE box

\* A send that looks up any bound socket instead of the order's own.
SendFirstBound(c, msg, throws, site) ==
  IF DOMAIN connections = {} THEN c
  ELSE LET t == connections[CHOOSE k \in DOMAIN connections : TRUE] IN
       IF sock[t].state = "open"
         THEN [c EXCEPT !.inb = [@ EXCEPT ![t] = Record(@, Seen(c, msg))],
                        !.pushed = Append(@, Seen(c, msg))]
       ELSE IF throws THEN [c EXCEPT !.thrown = Fault("send failed", site)]
       ELSE c

\* connection.send(JSON.stringify(msg)) on the transport bound to the order:
\* an OPEN socket takes the message; a socket that is closing but whose
\* 'close' event has not run yet either throws (throws = TRUE) or discards
\* the message, depending on the ws library.
Send(c, msg, throws, site) ==
  LET id == c.order.id IN
  IF id \notin DOMAIN connections THEN c
  ELSE LET t == connections[id] IN
       IF sock[t].state = "open"
         THEN [c EXCEPT !.inb = [@ EXCEPT ![t] = Record(@, Seen(c, msg))],
                        !.pushed = Append(@, Seen(c, msg))]
       ELSE IF throws THEN [c EXCEPT !.thrown = Fault("send failed", site)]
       ELSE c

LiveMsg(status, id, extra) ==
  [src |-> "worker", status |-> status, orderId |-> id,
   txHash |-> extra.txHash, executedPrice |-> extra.executedPrice,
   error |-> NoError, storeStatus |-> "none"]

NoExtra == [txHash |-> NoTx, executedPrice |-> NoPrice]

\* updateStatus that forgets to notify on 'building'.
UpdateStatusSilentBuilding(c, status, extra, throws) ==
  IF c.thrown # NoFault THEN c
  ELSE LET o == [c.order EXCEPT !.status = status, !.updatedAt = now]
           c1 == [c EXCEPT !.order = o,
                           !.store = MapSet(@, o.id, o),
                           !.writes = Append(@, status)]
       IN IF status = "building" THEN c1
          ELSE Send(c1, LiveMsg(status, o.id, extra), throws, status)

\* updateStatus that stores the order without refreshing updatedAt.
UpdateStatusStaleStamp(c, status, extra, throws) ==
  IF c.thrown # NoFault THEN c
  ELSE LET o == [c.order EXCEPT !.status = status]
           c1 == [c EXCEPT !.order = o,
                           !.store = MapSet(@, o.id, o),
                           !.writes = Append(@, status)]
       IN Send(c1, LiveMsg(status, o.id, extra), throws, status)

\* updateStatus(status, additionalData); skipped when an earlier statement
\* of the try block has already thrown.
UpdateStatus(c, status, extra, throws) ==
  IF c.thrown # NoFault THEN c
  ELSE LET o == [c.order EXCEPT !.status = status, !.updatedAt = now]
           c1 == [c EXCEPT !.order = o,
                           !.store = MapSet(@, o.id, o),
                           !.writes = Append(@, status)]
       IN Send(c1, LiveMsg(status, o.id, extra), throws, status)

\* The catch block: runs only when the try block threw. Returns the context
\* with `thrown` replaced by the fault that leaves the handler.
CatchBlock(c, throws) ==
  IF c.thrown = NoFault THEN c
  ELSE LET o == [c.order EXCEPT !.status = "failed",
                                !.error = ErrorMessage(c.thrown),
                                !.updatedAt = now]
           c1 == [c EXCEPT !.order = o,
                           !.store = MapSet(@, o.id, o),
                           !.writes = Append(@, "failed"),
                           !.thrown = NoFault]
           msg == [src |-> "worker", status |-> "failed", orderId |-> o.id,
                   txHash |-> NoTx, executedPrice |-> NoPrice,
                   error |-> o.error, storeStatus |-> "none"]
           c2 == Send(c1, msg, throws, "catch")
       IN IF c2.thrown # NoFault THEN c2 ELSE [c2 EXCEPT !.thrown = c.thrown]

\* ------------------------------------------------------- BullMQ queue
\* The job after the handler threw: retried after an exponential backoff
\* while attemptsMade < attempts, otherwise moved to the failed set.
JobAfterThrowOneMore(j) ==
  LET made == j.attemptsMade + 1 IN
  IF made <= j.opts.attempts
    THEN [j EXCEPT !.attemptsMade = made, !.state = "delayed",
                   !.delay = Pow2(made - 1) * j.opts.backoff.delay]
    ELSE [j EXCEPT !.attemptsMade = made, !.state = "failed"]

JobAfterThrow(j) ==
  LET made == j.attemptsMade + 1 IN
  IF made < j.opts.attempts
    THEN [j EXCEPT !.attemptsMade = made, !.state = "delayed",
                   !.delay = Pow2(made - 1) * j.opts.backoff.delay]
    ELSE [j EXCEPT !.attemptsMade = made, !.state = "failed"]

\* A handler return that puts the job back on the waiting list.
JobAfterReturnRequeue(j) ==
  [j EXCEPT !.attemptsMade = j.attemptsMade + 1, !.state = "waiting"]

JobAfterReturn(j) ==
  [j EXCEPT !.attemptsMade = j.attemptsMade + 1, !.state = "completed"]

\* --------------------------------------------------------------- Init
NoRequest == [tokenIn |-> "none", tokenOut |-> "none", amount |-> Amount(0, 0)]
NoReply == [statusCode |-> 0, orderId |-> 0, status |-> "none", wsEndpoint |-> <<>>]

Init ==
  /\ orderStore = <<>>
  /\ connections = <<>>
  /\ jobs = <<>>
  /\ run = <<>>
  /\ sock = [t \in Transports |-> [state |-> "new", orderId |-> 0]]
  /\ inbox = [t \in Transports |-> <<>>]
  /\ reply = NoReply
  /\ request = NoRequest
  /\ now = 0

\* Orders created plus websockets opened so far.
Load == Cardinality(DOMAIN orderStore)
        + Cardinality({t \in Transports : sock[t].state # "new"})

\* ------------------------------------- POST /api/orders/execute handler
\* An order created already in routing.
NewOrderRouting(id, body) ==
  [id |-> id, tokenIn |-> body.tokenIn, tokenOut |-> body.tokenOut,
   amount |-> body.amount, status |-> "routing",
   txHash |-> NoTx, error |-> NoError, updatedAt |-> now]

NewOrder(id, body) ==
  [id |-> id, tokenIn |-> body.tokenIn, tokenOut |-> body.tokenOut,
   amount |-> body.amount, status |-> "pending",
   txHash |-> NoTx, error |-> NoError, updatedAt |-> now]

\* A job enqueued with the queue's default options: one attempt, no backoff.
NewJobDefaultOpts(order) ==
  [name |-> "execute_order", data |-> [order |-> order],
   opts |-> [attempts |-> 1, backoff |-> [type |-> "fixed", delay |-> 0]],
   state |-> "adding", attemptsMade |-> 0, delay |-> 0]

\* orderQueue.add('execute_order', { order }, { attempts, backoff })
NewJob(order) ==
  [name |-> "execute_order", data |-> [order |-> order],
   opts |-> [attempts |-> Attempts,
             backoff |-> [type |-> "exponential", delay |-> BackoffDelay]],
   state |-> "adding", attemptsMade |-> 0, delay |-> 0]

\* A handler that keeps a raydium quote instead of asking again.
NewRunCachedQuote(order) ==
  [pc |-> "idle", order |-> order, qA |-> PriceOf(0), qB |-> Pending,
   dex |-> "none", swap |-> "none", prev |-> order.status, writes |-> <<>>,
   pushed |-> <<>>,
   caught |-> NoFault, raised |-> NoFault, steady |-> NoTransport]

\* The handler invocation of a job that has not been dequeued yet.
NewRun(order) ==
  [pc |-> "idle", order |-> order, qA |-> Pending, qB |-> Pending,
   dex |-> "none", swap |-> "none", prev |-> order.status, writes |-> <<>>,
   pushed |-> <<>>,
   caught |-> NoFault, raised |-> NoFault, steady |-> NoTransport]

Submit(body) ==
  IF ~ValidBody(body)
    THEN /\ reply' = [NoReply EXCEPT !.statusCode = 400]
         /\ request' = body
         /\ UNCHANGED <<orderStore, connections, jobs, run, sock, inbox, now>>
    ELSE /\ Cardinality(DOMAIN orderStore) < MaxOrders
         /\ Load < MaxLoad
         /\ LET id == Cardinality(DOMAIN orderStore) + 1    \* randomUUID(): fresh
                order == NewOrder(id, body)
            IN /\ orderStore' = MapSet(orderStore, id, order)
               /\ jobs' = MapSet(jobs, id, NewJob(order))
               /\ run' = MapSet(run, id, NewRun(order))
         /\ UNCHANGED <<connections, sock, inbox, reply, request, now>>

\* The body a stored order was made from.
BodyOf(order) ==
  [tokenIn |-> order.tokenIn, tokenOut |-> order.tokenOut, amount |-> order.amount]

\* `await orderQueue.add(...)` resolves: the job is in the queue, waiting,
\* and the handler goes on to answer 202 for that order.
Added(o) ==
  /\ jobs[o].state = "adding"
  /\ jobs' = [jobs EXCEPT ![o].state = "waiting"]
  /\ LET order == jobs[o].data.order        \* the handler's own `order`
     IN /\ request' = BodyOf(order)
        /\ reply' = [statusCode |-> 202, orderId |-> order.id,
                     status |-> "pending",
                     wsEndpoint |-> <<"ws://localhost:3000/ws/", order.id>>]
  /\ UNCHANGED <<orderStore, connections, run, sock, inbox, now>>

\* ------------------------------------------------ GET /ws/:orderId handler
\* run[o].steady is the transport that has been bound to o and open ever
\* since the latest attempt of o began, and run[o].pushed what that attempt
\* has sent it; both are dropped as soon as the binding is replaced or
\* removed or the transport starts closing.
Unsteady(hit) ==
  [o \in DOMAIN run |->
     IF o \in hit THEN [run[o] EXCEPT !.steady = NoTransport, !.pushed = <<>>]
     ELSE run[o]]

\* A snapshot that leaves the error out.
SnapshotNoError(order) ==
  [src |-> "ws", status |-> order.status, orderId |-> order.id,
   txHash |-> order.txHash, executedPrice |-> NoPrice, error |-> NoError,
   storeStatus |-> order.status]

Snapshot(order) ==
  [src |-> "ws", status |-> order.status, orderId |-> order.id,
   txHash |-> order.txHash, executedPrice |-> NoPrice, error |-> order.error,
   storeStatus |-> order.status]

\* A registry that keeps the first socket of an id.
RegisterKeepFirst(conns, orderId, t) ==
  IF orderId \in DOMAIN conns THEN conns ELSE MapSet(conns, orderId, t)

\* connections.set(orderId, connection.socket)
Register(conns, orderId, t) == MapSet(conns, orderId, t)

Connect(t, orderId) ==
  /\ sock[t].state = "new"
  /\ Load < MaxLoad
  /\ \A u \in Transports : u < t => sock[u].state # "new"   \* numbered as they connect
  /\ sock' = [sock EXCEPT ![t] = [state |-> "open", orderId |-> orderId]]
  /\ connections' = Register(connections, orderId, t)
  /\ inbox' = IF orderId \in DOMAIN orderStore
                THEN [inbox EXCEPT ![t] = Append(@, Snapshot(orderStore[orderId]))]
                ELSE inbox
  /\ run' = Unsteady({orderId})
  /\ UNCHANGED <<orderStore, jobs, reply, request, now>>

\* The peer or the server starts the closing handshake: readyState CLOSING,
\* the 'close' listener has not run yet.
BeginClose(t) ==
  /\ sock[t].state = "open"
  /\ sock' = [sock EXCEPT ![t].state = "closing"]
  /\ run' = Unsteady({o \in DOMAIN run : run[o].steady = t})
  /\ UNCHANGED <<orderStore, connections, jobs, inbox, reply, request, now>>

\* connection.socket.on('close', () => connections.delete(orderId))
CloseEvent(t) ==
  /\ sock[t].state \in {"open", "closing"}
  /\ sock' = [sock EXCEPT ![t] = [state |-> "closed", orderId |-> 0]]
  /\ inbox' = [inbox EXCEPT ![t] = <<>>]
  /\ connections' = MapDelete(connections, sock[t].orderId)
  /\ run' = Unsteady({o \in DOMAIN run : run[o].steady = t \/ o = sock[t].orderId})
  /\ UNCHANGED <<orderStore, jobs, reply, request, now>>

\* ------------------------------------------------------ worker handler
\* A handler that picks up the stored order instead of the job's payload.
JobOrderFromStore(j) == orderStore[j.data.order.id]

\* A payload whose amount loses its fraction on the way through the queue.
JobOrderRounded(j) == [j.data.order EXCEPT !.amount = Amount(@.whole, 0)]

\* const order = job.data.order as Order: the payload is deserialised anew
\* for every attempt, so it is the order as it was enqueued.
JobOrder(j) == j.data.order

\* End of one synchronous segment of the handler for job o: r holds the
\* handler's locals, j the job, cTry the context after the statements of the
\* try block. If one of them threw, the catch block runs and the fault it
\* rethrows reaches the queue; otherwise the handler waits at contPc or, at
\* "returned", the job completes.
Commit(o, r, j, cTry, throws, contPc) ==
  \E c \in {CatchBlock(cTry, throws)} :
  LET threw == cTry.thrown # NoFault
      r1 == [r EXCEPT !.order = c.order, !.writes = c.writes,
                      !.pushed = IF r.steady = NoTransport THEN <<>> ELSE c.pushed,
                      !.caught = cTry.thrown, !.raised = c.thrown,
                      !.qA = IF threw THEN Pending ELSE @,
                      !.qB = IF threw THEN Pending ELSE @,
                      !.pc = IF threw THEN "threw" ELSE contPc]
  IN /\ orderStore' = c.store
     /\ inbox' = c.inb
     /\ run' = [run EXCEPT ![o] = r1]
     /\ jobs' = [jobs EXCEPT ![o] = IF threw THEN JobAfterThrow(j)
                                    ELSE IF contPc = "returned" THEN JobAfterReturn(j)
                                    ELSE j]

\* The queue hands a waiting job to the worker. The handler reads the order
\* from the job's payload (a fresh copy of what was enqueued), publishes
\* 'routing' and starts both quote requests.
Dequeue(o, throws) ==
  /\ jobs[o].state = "waiting"
  /\ Cardinality({k \in DOMAIN jobs : jobs[k].state = "active"}) < Concurrency
  /\ LET order == JobOrder(jobs[o])
         bound == IF o \in DOMAIN connections /\ sock[connections[o]].state = "open"
                    THEN connections[o] ELSE NoTransport
         r0 == [NewRun(order) EXCEPT !.prev = orderStore[o].status, !.steady = bound]
     IN \E c1 \in {UpdateStatus(Ctx(order, <<>>, <<>>), "routing", NoExtra, throws)} :
          Commit(o, r0, [jobs[o] EXCEPT !.state = "active"], c1, throws, "quotes")
  /\ UNCHANGED <<connections, sock, reply, request, now>>

\* A meteora quote that never settles.
QuotePendingRaydiumOnly(o, venue) ==
  /\ run[o].pc = "quotes"
  /\ venue = "raydium" /\ run[o].qA = Pending

QuotePending(o, venue) ==
  /\ run[o].pc = "quotes"
  /\ IF venue = "raydium" THEN run[o].qA = Pending ELSE run[o].qB = Pending

\* A handler that goes on with the first quote to resolve (Promise.race).
QuoteResolvedFirstWins(o, venue, r, throws) ==
  /\ QuotePending(o, venue)
  /\ LET r1 == IF venue = "raydium"
                 THEN [run[o] EXCEPT !.qA = GetRaydiumQuote(r)]
                 ELSE [run[o] EXCEPT !.qB = GetMeteoraQuote(r)]
     IN \E c1 \in {UpdateStatus(Ctx(r1.order, r1.writes, r1.pushed),
                                "building", NoExtra, throws)} :
        \E c2 \in {UpdateStatus(c1, "submitted", NoExtra, throws)} :
        LET bestDex == venue
            r2 == [r1 EXCEPT !.dex = bestDex,
                             !.swap = IF c2.thrown = NoFault THEN bestDex ELSE "none"]
        IN Commit(o, r2, jobs[o], c2, throws, "exec")
  /\ UNCHANGED <<connections, sock, reply, request, now>>

\* One quote promise resolves. When it is the second one, Promise.all
\* resolves and the handler goes on to executeSwap.
QuoteResolved(o, venue, r, throws) ==
  /\ QuotePending(o, venue)
  /\ LET r1 == IF venue = "raydium"
                 THEN [run[o] EXCEPT !.qA = GetRaydiumQuote(r)]
                 ELSE [run[o] EXCEPT !.qB = GetMeteoraQuote(r)]
     IN IF r1.qA = Pending \/ r1.qB = Pending
          THEN /\ run' = [run EXCEPT ![o] = r1]
               /\ UNCHANGED <<orderStore, inbox, jobs>>
          ELSE \E c1 \in {UpdateStatus(Ctx(r1.order, r1.writes, r1.pushed),
                                         "building", NoExtra, throws)} :
               \E c2 \in {UpdateStatus(c1, "submitted", NoExtra, throws)} :
               LET bestDex == BestDex(r1.qA, r1.qB)
                   r2 == [r1 EXCEPT !.dex = bestDex,
                                    !.swap = IF c2.thrown = NoFault THEN bestDex ELSE "none"]
               IN Commit(o, r2, jobs[o], c2, throws, "exec")
  /\ UNCHANGED <<connections, sock, reply, request, now>>

\* One quote promise rejects: Promise.all rejects at once.
QuoteRejected(o, venue, throws) ==
  /\ QuotePending(o, venue)
  /\ LET c0 == Ctx(run[o].order, run[o].writes, run[o].pushed)
         c1 == [c0 EXCEPT !.thrown = Fault(venue \o " quote failed", "quote")]
     IN Commit(o, run[o], jobs[o], c1, throws, "exec")
  /\ UNCHANGED <<connections, sock, reply, request, now>>

\* executeSwap resolves: order.txHash = result.txHash, then 'confirmed'.
ExecResolved(o, r, throws) ==
  /\ run[o].pc = "exec"
  /\ LET result == ExecuteSwap(run[o].swap, <<o, jobs[o].attemptsMade>>, r)
         order == [run[o].order EXCEPT !.txHash = result.txHash]
     IN \E c1 \in {UpdateStatus(Ctx(order, run[o].writes, run[o].pushed), "confirmed",
                                [txHash |-> result.txHash,
                                 executedPrice |-> result.executedPrice], throws)} :
          Commit(o, run[o], jobs[o], c1, throws, "returned")
  /\ UNCHANGED <<connections, sock, reply, request, now>>

ExecRejected(o, throws) ==
  /\ run[o].pc = "exec"
  /\ LET c0 == Ctx(run[o].order, run[o].writes, run[o].pushed)
         c1 == [c0 EXCEPT !.thrown = Fault("swap failed", "execute")]
     IN Commit(o, run[o], jobs[o], c1, throws, "returned")
  /\ UNCHANGED <<connections, sock, reply, request, now>>

\* The backoff delay of a failed attempt elapses: the job waits again.
BackoffElapsed(o) ==
  /\ jobs[o].state = "delayed"
  /\ jobs' = [jobs EXCEPT ![o].state = "waiting"]
  /\ UNCHANGED <<orderStore, connections, run, sock, inbox, reply, request, now>>

Venues == {"raydium", "meteora"}

Next ==
  \/ \E body \in Requests : Submit(body)
  \/ \E o \in DOMAIN jobs : Added(o)
  \/ \E t \in Transports, orderId \in OrderIds : Connect(t, orderId)
  \/ \E t \in Transports : BeginClose(t)
  \/ \E t \in Transports : CloseEvent(t)
  \/ \E o \in DOMAIN jobs, throws \in BOOLEAN : Dequeue(o, throws)
  \/ \E o \in DOMAIN jobs, venue \in Venues, r \in RandomDraws, throws \in BOOLEAN :
       QuoteResolved(o, venue, r, throws)
  \/ \E o \in DOMAIN jobs, venue \in Venues, throws \in BOOLEAN :
       QuoteRejected(o, venue, throws)
  \/ \E o \in DOMAIN jobs, r \in RandomDraws, throws \in BOOLEAN : ExecResolved(o, r, throws)
  \/ \E o \in DOMAIN jobs, throws \in BOOLEAN : ExecRejected(o, throws)
  \/ \E o \in DOMAIN jobs : BackoffElapsed(o)

Spec == Init /\ [][Next]_vars

\* The steps the runtime takes on its own for job o: the queue takes the
\* job that was added, the queue hands a
\* waiting job to the worker (concurrency permitting), a simulated wait of a
\* quote or of the execution runs out, a backoff delay elapses.
WorkerStep(o) ==
  \/ Added(o)
  \/ \E throws \in BOOLEAN : Dequeue(o, throws)
  \/ \E venue \in Venues, r \in RandomDraws, throws \in BOOLEAN :
       QuoteResolved(o, venue, r, throws)
  \/ \E venue \in Venues, throws \in BOOLEAN : QuoteRejected(o, venue, throws)
  \/ \E r \in RandomDraws, throws \in BOOLEAN : ExecResolved(o, r, throws)
  \/ \E throws \in BOOLEAN : ExecRejected(o, throws)
  \/ BackoffElapsed(o)

Fairness == \A o \in OrderIds : WF_vars(o \in DOMAIN jobs /\ WorkerStep(o))

\* The runs checked for progress: those of Next with at most MaxFairLoad
\* orders and websockets in all.
NextFair ==
  \/ \E body \in Requests : Submit(body) /\ Load' <= MaxFairLoad
  \/ \E o \in DOMAIN jobs : Added(o)
  \/ \E t \in Transports, orderId \in OrderIds :
       Connect(t, orderId) /\ Load' <= MaxFairLoad
  \/ \E t \in Transports : BeginClose(t)
  \/ \E t \in Transports : CloseEvent(t)
  \/ \E o \in DOMAIN jobs, throws \in BOOLEAN : Dequeue(o, throws)
  \/ \E o \in DOMAIN jobs, venue \in Venues, r \in RandomDraws, throws \in BOOLEAN :
       QuoteResolved(o, venue, r, throws)
  \/ \E o \in DOMAIN jobs, venue \in Venues, throws \in BOOLEAN :
       QuoteRejected(o, venue, throws)
  \/ \E o \in DOMAIN jobs, r \in RandomDraws, throws \in BOOLEAN : ExecResolved(o, r, throws)
  \/ \E o \in DOMAIN jobs, throws \in BOOLEAN : ExecRejected(o, throws)
  \/ \E o \in DOMAIN jobs : BackoffElapsed(o)

SpecFair == Init /\ [][NextFair]_vars /\ Fairness

\* Time passes: the clock that new Date() reads moves on.
Tick ==
  /\ now < MaxClock
  /\ now' = now + 1
  /\ UNCHANGED <<orderStore, connections, jobs, run, sock, inbox, reply, request>>

NextClock ==
  \/ NextFair
  \/ Tick

SpecClock == Init /\ [][NextClock]_vars

\* The submission boundary on its own: request bodies on and around the
\* limits of the schema, and websockets opened and closed meanwhile.
ApiRequests ==
  { [tokenIn |-> i, tokenOut |-> "USDC", amount |-> a] :
      i \in {"SOL", "INVALID"},
      a \in {Amount(-1, 0), Amount(0, 0), Amount(0, 1), Amount(0, 2),
             Amount(1000000, 0), Amount(1000000, 1)} }
  \cup { [tokenIn |-> "ETH", tokenOut |-> "BTC", amount |-> Amount(1, 500000)] }

NextApi ==
  \/ \E body \in ApiRequests : Submit(body)
  \/ \E o \in DOMAIN jobs : Added(o)
  \/ \E t \in Transports, orderId \in OrderIds : Connect(t, orderId)
  \/ \E t \in Transports : BeginClose(t)
  \/ \E t \in Transports : CloseEvent(t)

SpecApi == Init /\ [][NextApi]_vars

\* ================================================================ claims
Statuses(msgs) == [i \in 1..Len(msgs) |-> msgs[i].status]

SuccessPath == <<"routing", "building", "submitted", "confirmed">>

\* C1: an attempt in which nothing throws writes exactly routing, building,
\* submitted, confirmed to the store, in that order, and a transport that is
\* bound and open for the whole attempt is pushed exactly those four statuses;
\* while such an attempt waits it has written and pushed a prefix of them.
C1_SuccessSequence ==
  \A o \in DOMAIN run :
    LET n == CASE run[o].pc = "quotes" -> 1
               [] run[o].pc = "exec" -> 3
               [] run[o].pc = "returned" -> 4
               [] OTHER -> 0
    IN n > 0 =>
         /\ run[o].writes = SubSeq(SuccessPath, 1, n)
         /\ orderStore[o].status = SuccessPath[n]
         /\ run[o].steady # NoTransport =>
              Statuses(run[o].pushed) = SubSeq(SuccessPath, 1, n)

C1_Witness ==
  \E o \in DOMAIN run :
    /\ run[o].pc = "returned"
    /\ run[o].steady # NoTransport
    /\ Len(run[o].pushed) = 4

\* The transition graph of the claim C2.
NonTerminal == {"pending", "routing", "building", "submitted"}
Edges ==
  {<<"pending", "routing">>, <<"routing", "building">>,
   <<"building", "submitted">>, <<"submitted", "confirmed">>,
   <<"failed", "routing">>}
  \cup {<<a, "failed">> : a \in NonTerminal}

\* The statuses the store has held for o since the latest attempt began,
\* starting with the one that attempt found.
Chain(o) == <<run[o].prev>> \o run[o].writes

\* C2: every change of an order's stored status is an edge of the transition
\* graph (the forward path, non-terminal -> failed, failed -> routing on a
\* redelivery).
C2_OnlyGraphEdges ==
  \A o \in DOMAIN run :
    \A i \in 1..Len(run[o].writes) :
      <<Chain(o)[i], Chain(o)[i + 1]>> \in Edges

\* C3: when the try block throws, the handler stores the order as failed with
\* error = the fault's message, pushes the failed event with that error to a
\* bound open transport and rethrows that same fault to the queue.
C3_FaultHandling ==
  \A o \in DOMAIN run :
    run[o].pc = "threw" =>
      /\ orderStore[o].status = "failed"
      /\ orderStore[o].error = run[o].caught.message
      /\ run[o].raised = run[o].caught
      /\ run[o].steady # NoTransport =>
           /\ run[o].pushed # <<>>
           /\ run[o].pushed[Len(run[o].pushed)].status = "failed"
           /\ run[o].pushed[Len(run[o].pushed)].error = run[o].caught.message

Invocations(o) == jobs[o].attemptsMade + (IF jobs[o].state = "active" THEN 1 ELSE 0)

Redelivered(o) ==
  \/ jobs[o].state = "delayed"
  \/ jobs[o].state = "waiting" /\ jobs[o].attemptsMade > 0

C4_State ==
  \A o \in DOMAIN jobs :
    /\ Invocations(o) <= Attempts
    /\ Redelivered(o) => run[o].pc = "threw" /\ run[o].raised # NoFault
    /\ jobs[o].state = "failed" =>
         /\ jobs[o].attemptsMade = Attempts
         /\ run[o].pc = "threw"
         /\ orderStore[o].status = "failed"
         /\ orderStore[o].error # NoError

C4_Step ==
  \A o \in DOMAIN jobs :
    jobs[o].state = "failed" =>
      /\ jobs'[o] = jobs[o]
      /\ orderStore'[o] = orderStore[o]
      /\ run'[o].pc = run[o].pc

C5_State ==
  \A o \in DOMAIN jobs :
    /\ Redelivered(o) =>
         orderStore[o].status = "failed" /\ orderStore[o].error # NoError
    /\ jobs[o].state = "completed" =>
         orderStore[o].status = "confirmed" /\ run[o].pc = "returned"

C5_Step ==
  \A o \in DOMAIN jobs :
    (jobs[o].state = "waiting" /\ jobs'[o].state # "waiting") =>
      /\ run'[o].prev = orderStore[o].status
      /\ jobs[o].attemptsMade > 0 => run'[o].prev = "failed"
      /\ run'[o].writes[1] = "routing"
      /\ run'[o].pc = "quotes" =>
           /\ run'[o].qA = Pending /\ run'[o].qB = Pending
           /\ run'[o].swap = "none"
           /\ orderStore'[o] = [jobs[o].data.order EXCEPT !.status = "routing"]

\* C5: a redelivered attempt starts over: it finds the stored status failed,
\* writes routing first, holds the order as it was enqueued and has both
\* quotes outstanding; after every faulting attempt that is retried the
\* stored order is failed with an error, and a job that completes leaves it
\* confirmed.
C5_RetryRestartsPipeline == [](C5_State) /\ [][C5_Step]_vars

C5_Witness ==
  \E o \in DOMAIN jobs :
    /\ jobs[o].state = "completed"
    /\ jobs[o].attemptsMade = 3
    /\ orderStore[o].status = "confirmed"

\* C6: the venue handed to executeSwap is raydium when the raydium quote is
\* at most the meteora quote, and meteora otherwise.
C6_LowerQuoteWins ==
  \A o \in DOMAIN run :
    run[o].pc = "exec" =>
      /\ run[o].qA # Pending /\ run[o].qB # Pending
      /\ run[o].qA <= run[o].qB => run[o].swap = "raydium"
      /\ run[o].qA > run[o].qB => run[o].swap = "meteora"

C6_Witness ==
  \E o \in DOMAIN run :
    run[o].pc = "exec" /\ run[o].qA = run[o].qB /\ run[o].swap = "raydium"

\* C7: a stored order has a txHash only when its status is confirmed.
C7_TxHashOnlyWhenConfirmed ==
  \A o \in DOMAIN orderStore :
    orderStore[o].txHash # NoTx => orderStore[o].status = "confirmed"

\* C8: a stored order has an error only when its status is failed.
C8_ErrorOnlyWhenFailed ==
  \A o \in DOMAIN orderStore :
    orderStore[o].error # NoError => orderStore[o].status = "failed"

C8_Witness ==
  \E o \in DOMAIN orderStore :
    /\ jobs[o].attemptsMade = 2
    /\ jobs[o].state = "completed"
    /\ orderStore[o].error = NoError

\* C9: confirmed is terminal: once the store has held confirmed for an order,
\* its status is not written again.
C9_ConfirmedTerminal ==
  \A o \in DOMAIN run :
    \A i \in 1..Len(run[o].writes) : Chain(o)[i] # "confirmed"

Connecting(t) == sock[t].state = "new" /\ sock'[t].state = "open"

C10_Step ==
  \A t \in Transports :
    /\ (Connecting(t) /\ sock'[t].orderId \in DOMAIN orderStore) =>
         LET order == orderStore[sock'[t].orderId] IN
         /\ Len(inbox'[t]) = 1
         /\ inbox'[t][1].src = "ws"
         /\ inbox'[t][1].orderId = sock'[t].orderId
         /\ inbox'[t][1].status = order.status
         /\ inbox'[t][1].txHash = order.txHash
         /\ inbox'[t][1].error = order.error
    /\ (sock[t].state = "open" /\ sock'[t].state # "closed") =>
         /\ Len(inbox'[t]) >= Len(inbox[t])
         /\ SubSeq(inbox'[t], 1, Len(inbox[t])) = inbox[t]
         /\ \A i \in (Len(inbox[t]) + 1)..Len(inbox'[t]) : inbox'[t][i].src = "worker"

\* C10: registering a transport for an id that is in the store sends it at
\* once a snapshot with the stored status, txHash and error, and every live
\* event it gets comes after that snapshot.
C10_SnapshotFirst == [][C10_Step]_vars

C10_Witness ==
  \E t \in Transports :
    /\ Len(inbox[t]) = 2
    /\ inbox[t][1].src = "ws" /\ inbox[t][1].status = "failed"
    /\ inbox[t][1].error # NoError
    /\ inbox[t][2].src = "worker"

Live(t) == sock[t].state \in {"open", "closing"}

SnapshotOf(t, statuses) ==
  /\ Live(t)
  /\ Len(inbox[t]) >= 1
  /\ inbox[t][1].src = "ws"
  /\ inbox[t][1].status \in statuses

\* C11 (as claimed): a client whose connection starts with the snapshot of a
\* confirmed or failed order receives that one message and nothing else.
C11_TerminalSnapshotOnly ==
  \A t \in Transports :
    SnapshotOf(t, {"confirmed", "failed"}) => Len(inbox[t]) = 1

\* An order nothing more will happen to: it is confirmed in the store, or
\* its job spent its last attempt.
Settled(o) ==
  /\ o \in DOMAIN orderStore
  /\ \/ orderStore[o].status = "confirmed"
     \/ jobs[o].state = "failed"

C11_Step ==
  \A t \in Transports :
    /\ (Connecting(t) /\ Settled(sock'[t].orderId)) =>
         /\ Len(inbox'[t]) = 1
         /\ inbox'[t][1].src = "ws"
         /\ inbox'[t][1].status = orderStore[sock'[t].orderId].status
         /\ inbox'[t][1].status \in {"confirmed", "failed"}
    /\ (Live(t) /\ sock'[t].state # "closed" /\ Settled(sock[t].orderId)) =>
         /\ inbox'[t] = inbox[t]
         /\ Settled(sock[t].orderId)'

\* C11 (amended): a client that connects once the order is settled, that is
\* confirmed or failed with no attempt left, gets the snapshot of that status
\* and no message after it; a failed order whose job will be retried is not
\* settled, and its client also gets the events of the retry.
C11_SettledSnapshotOnly == [][C11_Step]_vars

C11_Witness ==
  \E t \in Transports :
    /\ SnapshotOf(t, {"failed"})
    /\ Len(inbox[t]) = 1
    /\ jobs[sock[t].orderId].state = "failed"
    /\ jobs[sock[t].orderId].attemptsMade = Attempts

VenueSites == {"quote", "execute"}

\* The attempt of o wrote no status that a venue outcome does not explain: a
\* fault it caught came from a quote or from the execution.
C12_State ==
  \A o \in DOMAIN run :
    run[o].caught = NoFault \/ run[o].caught.site \in VenueSites

\* A step in which the handler of o's job writes a status: the attempt's
\* writes change, or an attempt ends (a retry can repeat the writes of the
\* attempt before it).
Transition(o) ==
  /\ o \in DOMAIN run
  /\ \/ run'[o].writes # run[o].writes
     \/ jobs'[o].attemptsMade # jobs[o].attemptsMade

C12_Step ==
  /\ \A o \in OrderIds :
       (Transition(o) /\ o \notin DOMAIN connections) =>
         /\ inbox' = inbox
         /\ run'[o].pushed = <<>>
         /\ run'[o].caught = NoFault \/ run'[o].caught.site \in VenueSites
         /\ run'[o].raised = run'[o].caught
  /\ \A t \in Transports :
       Connecting(t) =>
         /\ Len(inbox'[t]) <= 1
         /\ \A i \in 1..Len(inbox'[t]) : inbox'[t][i].src = "ws"

\* C12: a status transition of an order with no transport bound sends
\* nothing and raises no fault, a transport registered later gets the
\* snapshot only, and the statuses the pipeline writes to the store do not
\* depend on whether a client is connected.
C12_UnboundIsSilent == [](C12_State) /\ [][C12_Step]_vars

SendFault(f) == f # NoFault /\ f.message = "send failed"

\* C13: a send that throws is swallowed: it is not the fault that ends an
\* attempt, it is not stored as the order's error, and it does not reach the
\* queue, which would retry the job.
C13_SendFaultSwallowed ==
  \A o \in DOMAIN run :
    /\ ~SendFault(run[o].caught)
    /\ ~SendFault(run[o].raised)
    /\ orderStore[o].error # ErrorMessage(Fault("send failed", "none"))
    /\ run[o].order.status = "failed" => run[o].caught.site \in VenueSites

Last(s) == s[Len(s)]

C14_State ==
  /\ DOMAIN connections \subseteq OrderIds
  /\ \A id \in DOMAIN connections :
       /\ connections[id] \in Transports
       /\ sock[connections[id]].orderId = id
       /\ Cardinality({t \in Transports : connections[id] = t}) = 1

C14_Step ==
  \A t \in Transports :
    /\ Connecting(t) =>
         /\ sock'[t].orderId \in DOMAIN connections'
         /\ connections'[sock'[t].orderId] = t
         /\ \A id \in DOMAIN connections' \ {sock'[t].orderId} :
              id \in DOMAIN connections /\ connections'[id] = connections[id]
    /\ (Live(t) /\ sock'[t] = sock[t] /\ inbox'[t] # inbox[t]) =>
         /\ Last(inbox'[t]).src = "worker"
         /\ Last(inbox'[t]).orderId \in DOMAIN connections
         /\ connections[Last(inbox'[t]).orderId] = t

\* C14: the registry binds an order id to one transport at most; registering
\* a transport for an id makes it the binding of that id, whatever was bound
\* before, and the events of an order go to the transport bound to its id at
\* that moment and to no other.
C14_OneTransportPerOrder == [](C14_State) /\ [][C14_Step]_vars

C14_Witness ==
  \E o \in DOMAIN orderStore :
    /\ \A t \in Transports : sock[t] = [state |-> "open", orderId |-> o]
    /\ connections[o] = 2
    /\ Len(inbox[1]) = 1
    /\ Len(inbox[2]) = 2 /\ inbox[2][2].src = "worker"

C15_State ==
  /\ \A o \in DOMAIN orderStore :
       /\ orderStore[o].id = o
       /\ JobOrder(jobs[o]).id = o
       /\ run[o].order.id = o
  /\ \A o1, o2 \in DOMAIN orderStore :
       o1 # o2 => orderStore[o1].id # orderStore[o2].id
  /\ \A t \in Transports : \A i \in 1..Len(inbox[t]) :
       inbox[t][i].orderId = sock[t].orderId
  /\ \A o \in DOMAIN run :
       /\ \A i \in 1..Len(run[o].pushed) : run[o].pushed[i].orderId = o
       /\ run[o].steady # NoTransport => Statuses(run[o].pushed) = run[o].writes

C15_Step ==
  \A t \in Transports :
    (Live(t) /\ sock'[t] = sock[t] /\ inbox'[t] # inbox[t]) =>
      LET m == Last(inbox'[t])
          x == sock[t].orderId
      IN /\ m.orderId = x
         /\ x \in DOMAIN run
         /\ m.status \in {run'[x].writes[i] : i \in 1..Len(run'[x].writes)}
         /\ \A o \in DOMAIN run \ {x} : run'[o] = run[o]

\* C15: the ids of the orders created are pairwise distinct, and every event
\* a transport registered under id X receives, snapshot or live, carries
\* orderId X and a status written for order X, however many orders are in
\* the pipeline at the time.
C15_NoCrossTalk == [](C15_State) /\ [][C15_Step]_vars

C15_Witness ==
  \E t \in Transports :
    /\ Cardinality(DOMAIN orderStore) = 2
    /\ Len(inbox[t]) = 2 /\ inbox[t][2].src = "worker"
    /\ \E o \in DOMAIN orderStore :
         /\ o # sock[t].orderId
         /\ jobs[o].state = "active"
         /\ orderStore[o].status # orderStore[sock[t].orderId].status

Accepted == DOMAIN orderStore' # DOMAIN orderStore

C16_Step ==
  /\ Accepted =>
       \E id \in OrderIds \ (DOMAIN orderStore \cup DOMAIN jobs) :
         /\ DOMAIN orderStore' = DOMAIN orderStore \cup {id}
         /\ \A o \in DOMAIN orderStore : orderStore'[o] = orderStore[o]
         /\ orderStore'[id].id = id
         /\ orderStore'[id].status = "pending"
         /\ orderStore'[id].txHash = NoTx /\ orderStore'[id].error = NoError
         /\ BodyOf(orderStore'[id]) \in Requests \cup ApiRequests
         /\ DOMAIN jobs' = DOMAIN jobs \cup {id}
         /\ \A o \in DOMAIN jobs : jobs'[o] = jobs[o]
         /\ jobs'[id].data.order = orderStore'[id]
         /\ jobs'[id].opts.attempts = 3
         /\ jobs'[id].opts.backoff = [type |-> "exponential", delay |-> 1000]
         /\ jobs'[id].state = "adding" /\ jobs'[id].attemptsMade = 0
  /\ (reply' # reply /\ reply'.statusCode = 202) =>
       LET id == reply'.orderId IN
       /\ id \in DOMAIN orderStore
       /\ jobs[id].state = "adding" /\ jobs'[id].state = "waiting"
       /\ jobs'[id].data = jobs[id].data /\ jobs'[id].opts = jobs[id].opts
       /\ request' = BodyOf(jobs[id].data.order)
       /\ reply'.status = "pending"
       /\ Last(reply'.wsEndpoint) = id
       /\ DOMAIN jobs' = DOMAIN jobs /\ orderStore' = orderStore
  /\ \A id \in DOMAIN jobs :
       (jobs[id].state = "adding" /\ jobs'[id].state # "adding") =>
         (reply'.statusCode = 202 /\ reply'.orderId = id)

\* C16: an accepted submission creates one order with a fresh id and status
\* pending, stores it, enqueues one job carrying that order with 3 attempts
\* and exponential backoff 1000, and, when the job is in the queue, answers
\* 202 with that orderId, status pending and an endpoint whose path ends in
\* the orderId.
C16_AcceptedSubmission == [][C16_Step]_vars

C16_Witness ==
  /\ reply.statusCode = 202 /\ reply.orderId = 2
  /\ orderStore[2].amount = AmountMax
  /\ orderStore[1].amount # AmountMax
  /\ jobs[2].state = "waiting"

\* A body the claim calls invalid: a token outside the four listed, or an
\* amount below the schema's minimum or above its maximum.
Refused(b) ==
  \/ b.tokenIn \notin {"SOL", "USDC", "USDT", "ETH"}
  \/ b.tokenOut \notin {"SOL", "USDC", "USDT", "ETH"}
  \/ b.amount.whole < 0
  \/ b.amount.whole = 0 /\ b.amount.micro < 1
  \/ b.amount.whole > 1000000
  \/ b.amount.whole = 1000000 /\ b.amount.micro > 0

C17_State ==
  /\ (request # NoRequest /\ Refused(request)) => reply.statusCode = 400
  /\ \A o \in DOMAIN orderStore :
       /\ ~Refused(orderStore[o])
       /\ ~Refused(JobOrder(jobs[o]))

C17_Step ==
  (request' # request /\ Refused(request')) =>
    /\ reply'.statusCode = 400
    /\ UNCHANGED <<orderStore, jobs, run, connections, sock, inbox>>

\* C17: a request with a token outside {SOL, USDC, USDT, ETH} or an amount
\* out of range is answered 400 and changes nothing else: no order is
\* stored, no job is enqueued and no event is sent.
C17_InvalidRejected == [](C17_State) /\ [][C17_Step]_vars

C17_Witness ==
  /\ reply.statusCode = 400
  /\ request.tokenIn = "ETH" /\ request.tokenOut = "BTC"
  /\ Cardinality(DOMAIN orderStore) = 1
  /\ \E t \in Transports : Len(inbox[t]) = 1

Answered == request # NoRequest /\ ~Refused([request EXCEPT !.amount = Amount(1, 0)])

MicroLt(a, b) == a.whole < b.whole \/ (a.whole = b.whole /\ a.micro < b.micro)

\* C18 (as claimed): with valid tokens, a submission is accepted exactly when
\* 0.000001 < amount <= 1000000, the lower limit itself being rejected.
C18_HalfOpenInterval ==
  Answered =>
    (reply.statusCode = 202 <=>
       /\ MicroLt(Amount(0, 1), request.amount)
       /\ ~MicroLt(Amount(1000000, 0), request.amount))

\* C18 (amended): with valid tokens, a submission is accepted exactly when
\* 0.000001 <= amount <= 1000000: both limits are themselves accepted, the
\* amounts one micro-unit below and above them are rejected.
C18_ClosedInterval ==
  Answered =>
    /\ reply.statusCode \in {202, 400}
    /\ reply.statusCode = 202 <=>
         /\ ~MicroLt(request.amount, Amount(0, 1))
         /\ ~MicroLt(Amount(1000000, 0), request.amount)

C18_Witness ==
  /\ request.amount = Amount(0, 1)
  /\ reply.statusCode = 202
  /\ orderStore[reply.orderId].amount = Amount(0, 1)
  /\ orderStore[reply.orderId].tokenIn = "SOL"

Wrote(o, status) == \E i \in 1..Len(run[o].writes) : run[o].writes[i] = status

ConfirmedEvent(m) == m.src = "worker" /\ m.status = "confirmed"

\* C19: once an attempt has confirmed its order, the order stores a txHash
\* whose prefix is the venue the attempt's routing comparison selected, and
\* the confirmed event carries that same txHash together with an
\* executedPrice.
C19_ConfirmedCarriesTx ==
  /\ \A o \in DOMAIN run :
       Wrote(o, "confirmed") =>
         /\ orderStore[o].txHash # NoTx
         /\ orderStore[o].txHash = run[o].order.txHash
         /\ orderStore[o].txHash[1] = run[o].dex
         /\ run[o].dex \in Venues
         /\ run[o].pc = "returned" => run[o].dex = BestDex(run[o].qA, run[o].qB)
         /\ \A i \in 1..Len(run[o].pushed) :
              ConfirmedEvent(run[o].pushed[i]) =>
                /\ run[o].pushed[i].txHash = orderStore[o].txHash
                /\ run[o].pushed[i].executedPrice # NoPrice
  /\ \A t \in Transports : \A i \in 1..Len(inbox[t]) :
       ConfirmedEvent(inbox[t][i]) =>
         /\ inbox[t][i].txHash # NoTx
         /\ inbox[t][i].executedPrice # NoPrice
         /\ inbox[t][i].txHash = orderStore[inbox[t][i].orderId].txHash
         /\ inbox[t][i].txHash[1] = run[inbox[t][i].orderId].dex

C19_Witness ==
  \E t \in Transports : \E o \in DOMAIN run :
    /\ run[o].pc = "returned"
    /\ run[o].dex = "meteora"
    /\ Len(inbox[t]) = 2 /\ ConfirmedEvent(inbox[t][2])
    /\ inbox[t][2].orderId = o
    /\ inbox[t][2].txHash[1] = "meteora"

InBand(p) == 97 * Scale <= p /\ p <= 103 * Scale

Quoted(o) == {run[o].qA, run[o].qB} \ {Pending}

\* C20: every quote of either venue and every executedPrice lies between 97
\* and 103, the band of 3% around the base price 100; the executedPrice is a
\* draw of its own and need not equal either quote.
C20_PricesInBand ==
  /\ \A o \in DOMAIN run :
       /\ \A p \in Quoted(o) : InBand(p)
       /\ \A i \in 1..Len(run[o].pushed) :
            ConfirmedEvent(run[o].pushed[i]) => InBand(run[o].pushed[i].executedPrice)
  /\ \A t \in Transports : \A i \in 1..Len(inbox[t]) :
       /\ ConfirmedEvent(inbox[t][i]) => InBand(inbox[t][i].executedPrice)
       /\ ~ConfirmedEvent(inbox[t][i]) => inbox[t][i].executedPrice = NoPrice
  /\ \A r \in RandomDraws :
       /\ InBand(GetRaydiumQuote(r)) /\ InBand(GetMeteoraQuote(r))
       /\ \A dex \in Venues : InBand(ExecuteSwap(dex, <<0, 0>>, r).executedPrice)

C20_Witness ==
  \E t \in Transports : \E o \in DOMAIN run :
    /\ run[o].pc = "returned"
    /\ Len(inbox[t]) = 2 /\ ConfirmedEvent(inbox[t][2])
    /\ inbox[t][2].orderId = o
    /\ run[o].qA = run[o].qB
    /\ inbox[t][2].executedPrice \notin Quoted(o)
    /\ inbox[t][2].executedPrice = 97 * Scale

InFlight(o) == o \in DOMAIN jobs /\ jobs[o].state = "active"

EndedConfirmed(o) ==
  /\ o \in DOMAIN jobs
  /\ jobs[o].state = "completed"
  /\ run[o].pc = "returned"
  /\ orderStore[o].status = "confirmed"

EndedFailed(o) ==
  /\ o \in DOMAIN jobs
  /\ jobs[o].state \in {"delayed", "failed"}
  /\ run[o].pc = "threw"
  /\ orderStore[o].status = "failed"
  /\ run[o].raised # NoFault

IsPending(o) == o \in DOMAIN orderStore /\ orderStore[o].status = "pending"

\* C21: with the queue and the simulated waits scheduled fairly, every
\* accepted order leaves pending, and every attempt that was dequeued ends
\* with the order confirmed, or with the order failed and a fault raised to
\* the queue; none stays in routing, building or submitted for ever.
C21_AttemptsEnd ==
  \A o \in OrderIds :
    /\ IsPending(o) ~> ~IsPending(o)
    /\ InFlight(o) ~> (EndedConfirmed(o) \/ EndedFailed(o))
    /\ <>[](~InFlight(o))

C21_Witness ==
  \E o \in DOMAIN jobs :
    /\ EndedFailed(o)
    /\ jobs[o].state = "failed"
    /\ run[o].writes = <<"routing", "building", "submitted", "failed">>

Outstanding(o) == {v \in Venues : (IF v = "raydium" THEN run[o].qA ELSE run[o].qB) = Pending}

C22_State ==
  \A o \in DOMAIN run :
    /\ run[o].pc = "quotes" =>
         /\ run[o].writes = <<"routing">>
         /\ Outstanding(o) # {}
         /\ run[o].dex = "none" /\ run[o].swap = "none"
    /\ run[o].pc = "exec" =>
         /\ Outstanding(o) = {}
         /\ run[o].dex = BestDex(run[o].qA, run[o].qB)
         /\ run[o].swap = run[o].dex
    /\ Wrote(o, "building") => run[o].dex \in Venues
    /\ (run[o].caught # NoFault /\ run[o].caught.site = "quote") =>
         /\ run[o].writes = <<"routing", "failed">>
         /\ run[o].dex = "none" /\ run[o].swap = "none"
         /\ run[o].order.txHash = NoTx
         /\ orderStore[o].status = "failed"

C22_Step ==
  \A o \in DOMAIN run :
    /\ (~Wrote(o, "building") /\ Wrote(o, "building")') =>
         /\ run[o].pc = "quotes"
         /\ Cardinality(Outstanding(o)) = 1
    /\ (run[o].pc = "quotes" /\ Cardinality(Outstanding(o)) = 2
          /\ run'[o].pc = "quotes" /\ Outstanding(o)' # Outstanding(o)) =>
         /\ Cardinality(Outstanding(o)') = 1
         /\ run'[o].writes = <<"routing">>
         /\ orderStore'[o].status = "routing"

\* C22: both quotes are requested when the attempt starts and the handler
\* waits for both: the venue is chosen and building is written only in the
\* step in which the second of them resolves, whichever that is; when a
\* quote request fails the attempt writes routing, failed and nothing else
\* and never calls the execution.
C22_QuotesJoined == [](C22_State) /\ [][C22_Step]_vars

C22_Witness ==
  \E o \in DOMAIN run :
    /\ run[o].pc = "exec"
    /\ run[o].qB < run[o].qA
    /\ run[o].dex = "meteora"
    /\ run[o].writes = <<"routing", "building", "submitted">>

Newest(t) == Live(t) /\ \A u \in Transports : u > t => sock[u].state = "new"

C23_State ==
  \A t \in Transports :
    Newest(t) =>
      /\ sock[t].orderId \in DOMAIN connections
      /\ connections[sock[t].orderId] = t

Closing(t) == Live(t) /\ sock'[t].state = "closed"

C23_Step ==
  \A t \in Transports :
    (Closing(t) /\ sock[t].orderId \notin DOMAIN connections) =>
      connections' = connections

\* C23: the transport registered last for an order id stays the binding of
\* that id, and so gets the order's events, until it closes itself, whatever
\* the transports registered before it do; and a close for an id that has no
\* binding leaves the registry as it is.
C23_LastRegisteredWins == [](C23_State) /\ [][C23_Step]_vars

PipelineStatuses == {"routing", "building", "submitted", "confirmed", "failed"}

C24_State ==
  /\ \A t \in Transports : \A i \in 1..Len(inbox[t]) :
       inbox[t][i].src = "worker" => inbox[t][i].storeStatus = inbox[t][i].status
  /\ \A o \in DOMAIN run :
       /\ \A i \in 1..Len(run[o].pushed) :
            run[o].pushed[i].storeStatus = run[o].pushed[i].status
       /\ (run[o].caught # NoFault /\ run[o].caught.site \in PipelineStatuses) =>
            Wrote(o, run[o].caught.site)
       /\ orderStore[o].updatedAt <= now

C24_Step ==
  \A o \in DOMAIN orderStore :
    /\ orderStore'[o].updatedAt >= orderStore[o].updatedAt
    /\ orderStore'[o].status # orderStore[o].status => Transition(o)
    /\ Transition(o) =>
         /\ orderStore'[o].updatedAt = now
         /\ orderStore'[o].status = Last(run'[o].writes)
         /\ orderStore'[o].status \in PipelineStatuses

\* C24: every status the pipeline writes, failed included, is stored with
\* updatedAt read from the clock at that moment, and the event is sent after
\* the write: a live event is sent while the store holds the status it
\* carries, and the updatedAt of a stored order never goes back.
C24_WriteThenSend == [](C24_State) /\ [][C24_Step]_vars

C24_Witness ==
  \E t \in Transports :
    /\ Len(inbox[t]) = 2
    /\ inbox[t][2].src = "worker" /\ inbox[t][2].status = "routing"
    /\ jobs[inbox[t][2].orderId].attemptsMade >= 1
    /\ orderStore[inbox[t][2].orderId].updatedAt = MaxClock
    /\ JobOrder(jobs[inbox[t][2].orderId]).updatedAt = 0

Identity(order) ==
  [id |-> order.id, tokenIn |-> order.tokenIn,
   tokenOut |-> order.tokenOut, amount |-> order.amount]

C25_Step ==
  \A o \in DOMAIN orderStore :
    /\ o \in DOMAIN orderStore'
    /\ Identity(orderStore'[o]) = Identity(orderStore[o])
    /\ orderStore'[o] # orderStore[o] =>
         /\ jobs[o].state \in {"waiting", "active"}
         /\ Transition(o)
         /\ DOMAIN orderStore' = DOMAIN orderStore
         /\ UNCHANGED <<connections, sock, reply, request>>
         /\ \A k \in DOMAIN orderStore \ {o} : orderStore'[k] = orderStore[k]

\* C25: an order record stays in the store once created and keeps its id,
\* tokenIn, tokenOut and amount; a record changes only in a step of the
\* worker on that order's job, so another submission, a registration with
\* its snapshot and a close leave every existing record as it is.
C25_OnlyWorkerChangesOrders == [][C25_Step]_vars

C25_Witness ==
  /\ Cardinality(DOMAIN orderStore) = 2
  /\ orderStore[1].status = "confirmed"
  /\ orderStore[2].status = "pending"
  /\ \E t \in Transports : sock[t].state = "closed"

NotDequeuedYet(o) ==
  /\ o \in DOMAIN jobs
  /\ jobs[o].state \in {"adding", "waiting"}
  /\ jobs[o].attemptsMade = 0

C26_State ==
  /\ DOMAIN jobs \subseteq DOMAIN orderStore
  /\ \A o \in DOMAIN jobs :
       /\ jobs[o].data.order.id = o
       /\ jobs[o].data.order.status = "pending"
       /\ NotDequeuedYet(o) <=> orderStore[o].status = "pending"
       /\ ~Wrote(o, "pending")
       /\ \A i \in 1..Len(run[o].pushed) : run[o].pushed[i].status # "pending"
  /\ \A t \in Transports : \A i \in 1..Len(inbox[t]) :
       inbox[t][i].src = "worker" => inbox[t][i].status # "pending"

C26_Step ==
  \A t \in Transports :
    (Connecting(t) /\ NotDequeuedYet(sock'[t].orderId)) =>
      /\ Len(inbox'[t]) = 1
      /\ inbox'[t][1].src = "ws"
      /\ inbox'[t][1].status = "pending"
      /\ inbox'[t][1].orderId = sock'[t].orderId

\* C26: the order is in the store, pending, when its job is handed to the
\* queue, so every job refers to a stored order; the stored status is
\* pending exactly until the job is first dequeued, a client that connects
\* before that gets a pending snapshot, and no event of the pipeline carries
\* pending.
C26_PendingUntilDequeued == [](C26_State) /\ [][C26_Step]_vars

C26_Witness ==
  \E t \in Transports :
    /\ Live(t)
    /\ Len(inbox[t]) = 1 /\ inbox[t][1].status = "pending"
    /\ sock[t].orderId \in DOMAIN jobs
    /\ jobs[sock[t].orderId].state = "adding"

====
